---- MODULE Spec2Model ----
(***************************************************************************)
(* Session persistence core of azor-chatdog-ts: ChatSession,               *)
(* SessionManager, the session files, the append log (WAL) and the main    *)
(* loop that drives them.                                                  *)
(***************************************************************************)
EXTENDS Integers, Sequences, FiniteSets, TLC

\* ------------------------------------------------------------------ bounds

\* message turns the main loop may start in one run
MaxTurns == 2
\* session files that may exist before the process starts (ids 1..MaxStored)
MaxStored == 1
\* ids randomUUID() hands out in one run (ids MaxStored+1 .. MaxStored+MaxFresh)
MaxFresh == 1
\* file-system faults injected in one run
MaxFaults == 1
\* length of the histories handed to the session store on its own
MaxLen == 2
\* saves of one history by the session store on its own
MaxSaves == 2

\* ------------------------------------------------------------------ values

StoredIds == 1..MaxStored
Ids == 1..(MaxStored + MaxFresh)

\* process.env.ENGINE values that ENGINE_MAPPING knows
Engines == {"GEMINI", "LLAMA_CPP"}

\* what process.env.ENGINE may hold, upper-cased: nothing ("": the variable is
\* unset or empty), a name ENGINE_MAPPING knows, a name it does not know
ConfiguredEngines == {""} \cup Engines \cup {"OLLAMA"}

\* _initializeLLMSession, the engine it goes on with:
\* (process.env.ENGINE || 'GEMINI').toUpperCase()
selectedEngine(env) == IF env = "" THEN "GEMINI" ELSE env

\* _initializeLLMSession raises: the engine is not a key of ENGINE_MAPPING
engineRejected(env) == selectedEngine(env) \notin Engines

\* what the user types at the prompt (never empty: the main loop skips empty input)
UserTexts == {"hi"}
\* what a backend may answer; "" is an answer with no text
ResponseTexts == {"", "yo"}
\* the outcomes of one backend call: an answer, or a provider-side failure
BackendOutcomes == ResponseTexts \cup {"FAIL"}

\* errorText of LlamaChatSession.sendMessage
LlamaErrorText == "Przepraszam, wystapil blad podczas generowania odpowiedzi."

\* outcomes of one file-system call: it works; it fails before touching the
\* file; a write fails after the file was opened with truncation (left empty,
\* or left with part of the bytes)
Faults == {"ok", "eopen", "etrunc", "epartial"}

\* a message without a timestamp has ts = 0 (Message.timestamp is optional);
\* the clock starts at 1
Message(role, text) == [role |-> role, text |-> text, ts |-> 0]

HasText(m) == m.text # ""

RoleText(m) == <<m.role, m.text>>

\* the (role, text) projection of a history
Plain(h) == [i \in 1..Len(h) |-> RoleText(h[i])]

\* ------------------------------------------------------- messageConverter

\* entries with an empty first text part are dropped, the timestamp is not copied
chatHistoryToGeminiContent(history) ==
    LET kept == SelectSeq(history, HasText)
    IN  [i \in 1..Len(kept) |-> Message(kept[i].role, kept[i].text)]

\* contents without a non-empty text part are dropped
geminiContentToChatHistory(contents) ==
    LET kept == SelectSeq(contents, HasText)
    IN  [i \in 1..Len(kept) |-> Message(kept[i].role, kept[i].text)]

\* ------------------------------------------------------------ LLM clients

getModelName(engine) ==
    IF engine = "LLAMA_CPP" THEN "llama-3.1-8b-instruct" ELSE "gemini-2.0-flash"

\* The chat handle's own history right after createChatSession(history):
\* LlamaChatSession keeps the very array it was given; the Gemini handle is
\* started from the converted contents.
createChatSession(engine, history) ==
    IF engine = "LLAMA_CPP" THEN history ELSE chatHistoryToGeminiContent(history)

\* The conversation the backend itself holds right after
\* createChatSession(history), i.e. the context of the next send: startChat
\* is given the converted contents; the NativeLlamaChatSession is built on a
\* new context sequence with the system prompt only.
backendContext(engine, history) ==
    IF engine = "LLAMA_CPP" THEN << >> ELSE chatHistoryToGeminiContent(history)

\* ChatSessionType.getHistory() for a handle whose own history is chat
wrapperGetHistory(engine, chat) ==
    IF engine = "LLAMA_CPP" THEN chat ELSE geminiContentToChatHistory(chat)

\* countHistoryTokens: the backend's count (here one token per character
\* of "hi"/"yo"-sized texts, i.e. two per message with text), 0 for an empty history
countHistoryTokens(history) ==
    IF Len(history) = 0 THEN 0 ELSE 2 * Len(SelectSeq(history, HasText))

\* ------------------------------------------------------------ sessionFiles

\* A session file: absent; "corrupt" (its bytes do not parse: SyntaxError);
\* "malformed" (it parses but holds no history array: TypeError in the map);
\* "truncated" or "partial" (what a write of this program that failed left:
\* no bytes, or part of them; neither parses); or a record
\* {session_id, model, system_role, history}.
NoFile(kind) ==
    [kind |-> kind, session_id |-> 0, model |-> "", system_role |-> "",
     history |-> << >>]

SystemRole == "Azor"

\* loadSessionHistory: [history, error]; error "" is null
loadSessionHistory(file) ==
    CASE file.kind = "absent" ->
           [history |-> << >>, error |-> "does not exist"]
      [] file.kind \in {"corrupt", "truncated", "partial"} ->
           [history |-> << >>, error |-> "Cannot decode log file"]
      [] file.kind = "malformed" ->
           [history |-> << >>, error |-> "Error reading session file"]
      [] OTHER ->
           [history |-> file.history, error |-> ""]

\* the serialization with every message given the time of the save
jsonHistoryRestamped(history, now) ==
    [i \in 1..Len(history) |->
        [role |-> history[i].role, text |-> history[i].text, ts |-> now]]

\* the history as serialized: a message without a timestamp gets the time of the save
jsonHistory(history, now) ==
    [i \in 1..Len(history) |->
        [role |-> history[i].role, text |-> history[i].text,
         ts |-> IF history[i].ts # 0 THEN history[i].ts ELSE now]]

\* what writeFileSync(path, data) leaves at path, by outcome
writeFileSync(old, new, broken, empty, fault) ==
    CASE fault = "ok" -> new
      [] fault = "eopen" -> old
      [] fault = "etrunc" -> empty
      [] OTHER -> broken

\* saveSessionHistory without the check of the history's length
saveSessionHistoryUngated(file, sessionId, history, systemPrompt, modelName, now, fault) ==
    LET logData == [kind |-> "record", session_id |-> sessionId,
                    model |-> modelName, system_role |-> systemPrompt,
                    history |-> jsonHistory(history, now)]
    IN  [ok |-> fault = "ok", wrote |-> TRUE,
         file |-> writeFileSync(file, logData, NoFile("partial"),
                                NoFile("truncated"), fault)]

\* saveSessionHistory adding the history to the one the file holds instead
\* of replacing the file
saveSessionHistoryAppending(file, sessionId, history, systemPrompt, modelName, now, fault) ==
    IF Len(history) < 2
    THEN [ok |-> TRUE, wrote |-> FALSE, file |-> file]
    ELSE LET logData == [kind |-> "record", session_id |-> sessionId,
                         model |-> modelName, system_role |-> systemPrompt,
                         history |-> (IF file.kind = "record"
                                      THEN file.history ELSE << >>)
                                     \o jsonHistory(history, now)]
         IN  [ok |-> fault = "ok", wrote |-> TRUE,
              file |-> writeFileSync(file, logData, NoFile("partial"),
                                     NoFile("truncated"), fault)]

\* saveSessionHistory: [ok, wrote, file]; nothing is written (wrote is FALSE)
\* for fewer than two messages
saveSessionHistory(file, sessionId, history, systemPrompt, modelName, now, fault) ==
    IF Len(history) < 2
    THEN [ok |-> TRUE, wrote |-> FALSE, file |-> file]
    ELSE LET logData == [kind |-> "record", session_id |-> sessionId,
                         model |-> modelName, system_role |-> systemPrompt,
                         history |-> jsonHistory(history, now)]
         IN  [ok |-> fault = "ok", wrote |-> TRUE,
              file |-> writeFileSync(file, logData, NoFile("partial"),
                                     NoFile("truncated"), fault)]

\* the error marker of listSessions
ListError == "BLAD ODCZYTU PLIKU"

\* the entry listSessions makes for the file of session sid: a record gives
\* its number of messages; anything JSON.parse rejects, and a JSON value
\* without a history (reading history[historyLen - 1] raises), gives the
\* error marker and no count (messages_count -1 is undefined)
listEntry(sid, file) ==
    IF file.kind = "record"
    THEN [id |-> sid, messages_count |-> Len(file.history), error |-> ""]
    ELSE [id |-> sid, messages_count |-> -1, error |-> ListError]

\* the ids of the files readdirSync finds, sorted
sessionIds(d) ==
    LET found == {i \in DOMAIN d : d[i].kind # "absent"}
    IN  CHOOSE f \in [1..Cardinality(found) -> found] :
            \A a, b \in 1..Cardinality(found) : a < b => f[a] < f[b]

\* listSessions without the try/catch around each file: the entries made
\* before the first file that cannot be read
listSessionsAborting(d) ==
    LET ids == sessionIds(d)
        bad == {k \in 1..Len(ids) : d[ids[k]].kind # "record"}
        n == IF bad = {} THEN Len(ids)
             ELSE (CHOOSE k \in bad : \A j \in bad : k <= j) - 1
    IN  [k \in 1..n |-> listEntry(ids[k], d[ids[k]])]

\* listSessions over the session files d: one entry per file, in id order
listSessions(d) ==
    LET ids == sessionIds(d)
    IN  [k \in 1..Len(ids) |-> listEntry(ids[k], d[ids[k]])]

\* removeSessionFile: [ok, file]
removeSessionFile(file, fault) ==
    IF file.kind = "absent"
    THEN [ok |-> FALSE, error |-> "not found", file |-> file]
    ELSE IF fault = "ok"
         THEN [ok |-> TRUE, error |-> "", file |-> NoFile("absent")]
         ELSE [ok |-> FALSE, error |-> "Error removing session file", file |-> file]

\* -------------------------------------------------------------------- wal

\* The log file: absent; "empty" (size 0); "garbage" (bytes that do not
\* parse); "nonarray" (JSON that parses to something that is no array);
\* or "array", a JSON array of entries.
WalFile(kind, entries) == [kind |-> kind, entries |-> entries]

WalKinds == {"absent", "empty", "garbage", "nonarray", "array"}

WalWrite(old, data, fault) ==
    writeFileSync(old, WalFile("array", data), WalFile("garbage", << >>),
                  WalFile("empty", << >>), fault)

\* appendToWAL writing its entry over a read made before the file had any
\* entry: what an append interleaved with others would write
appendToWALStale(file, walEntry, rd, rst, wr) ==
    [ok |-> wr = "ok", io |-> wr = "ok",
     file |-> WalWrite(file, <<walEntry>>, wr)]

\* appendToWAL putting its entry before the entries it read
appendToWALFront(file, walEntry, rd, rst, wr) ==
    LET fail(f, io) == [ok |-> FALSE, io |-> io, file |-> f]
        finish(f, data) ==
            [ok |-> wr = "ok", io |-> wr = "ok",
             file |-> WalWrite(f, <<walEntry>> \o data, wr)]
    IN  IF file.kind \in {"absent", "empty"}
        THEN finish(file, << >>)
        ELSE IF rd # "ok"
        THEN fail(file, FALSE)
        ELSE IF file.kind = "garbage"
        THEN IF rst = "ok"
             THEN finish(WalFile("array", << >>), << >>)
             ELSE fail(WalWrite(file, << >>, rst), FALSE)
        ELSE IF file.kind = "nonarray"
        THEN fail(file, TRUE)
        ELSE finish(file, file.entries)

\* appendToWAL: [ok, io, file]. rd is the outcome of the read, rst of the write
\* that resets a file that does not parse, wr of the final write; io tells
\* whether every file-system call the append made worked (a TypeError from
\* data.push on a non-array is no file-system failure).
appendToWAL(file, walEntry, rd, rst, wr) ==
    LET fail(f, io) == [ok |-> FALSE, io |-> io, file |-> f]
        finish(f, data) ==
            [ok |-> wr = "ok", io |-> wr = "ok",
             file |-> WalWrite(f, Append(data, walEntry), wr)]
    IN  IF file.kind \in {"absent", "empty"}
        THEN finish(file, << >>)
        ELSE IF rd # "ok"
        THEN fail(file, FALSE)
        ELSE IF file.kind = "garbage"
        THEN IF rst = "ok"
             THEN finish(WalFile("array", << >>), << >>)
             ELSE fail(WalWrite(file, << >>, rst), FALSE)
        ELSE IF file.kind = "nonarray"
        THEN fail(file, TRUE)
        ELSE finish(file, file.entries)

\* ------------------------------------------------------------------ state

VARIABLES
    engine,      \* process.env.ENGINE, upper-cased ("": unset or empty, which
                 \* the clients take as GEMINI)
    pc,          \* where the process is: "start", "prompt", "awaitBackend",
                 \* "cleanupWait" (signal handler waiting on the handle),
                 \* "exited", "failed" (main() caught an error: exit code 1),
                 \* "awaitStalled" (the backend call in flight will never
                 \* return), "cleanupStalled" (the handler waits on it)
    cur,         \* SessionManager._currentSession
    disk,        \* the session files of LOG_DIR, by session id
    wal,         \* the file WAL_FILE
    nextId,      \* the next id randomUUID() returns
    clock,       \* new Date(): advances with every message turn
    pending,     \* the text of the sendMessage in flight
    last,        \* what the last operation returned and reported
    left,        \* per session id, the history the session had when it was
                 \* last switched away from, and whether that save worked
    saveFailed,  \* whether a save of a session has failed so far
    faults       \* file-system faults injected so far

vars == <<engine, pc, cur, disk, wal, nextId, clock, pending, last, left,
          saveFailed, faults>>

\* ------------------------------------------------------------ ChatSession

\* a session: id, _history (hist), the chat handle's own history (chat), the
\* conversation the backend holds for the handle (ctx), whether a handle exists
NoSession ==
    [id |-> 0, hist |-> << >>, chat |-> << >>, ctx |-> << >>, ready |-> FALSE]

\* constructor: _history is the history given, no chat handle yet
ChatSession(sessionId, history) ==
    [id |-> sessionId, hist |-> history, chat |-> << >>, ctx |-> << >>,
     ready |-> FALSE]

\* _initializeLLMSession: a chat handle created from the current _history
initializeLLMSession(s) ==
    [s EXCEPT !.chat = createChatSession(engine, s.hist),
              !.ctx = backendContext(engine, s.hist), !.ready = TRUE]

\* getHistory: _history is replaced by what the chat handle returns
getHistory(s) ==
    IF s.ready THEN [s EXCEPT !.hist = wrapperGetHistory(engine, s.chat)] ELSE s

\* isEmpty with the test "no message at all"
isEmptyNone(s) == Len(s.hist) = 0

isEmpty(s) == Len(s.hist) < 2

\* countTokens
countTokens(s) == IF s.ready THEN countHistoryTokens(s.hist) ELSE 0

\* _maxContextTokens
MaxContextTokens == 32768

\* countTokens when the client's tokenizer counts n tokens for the history:
\* 0 without a client, and countHistoryTokens returns 0 for an empty history
\* without asking the tokenizer
countTokensOf(s, n) == IF ~s.ready \/ Len(s.hist) = 0 THEN 0 ELSE n

\* getRemainingTokens, total being what its countTokens() returned
getRemainingTokens(total) == MaxContextTokens - total

\* getTokenInfo with the remaining tokens never below zero
getTokenInfoClamped(totalTokens) ==
    <<totalTokens,
      IF totalTokens > MaxContextTokens THEN 0 ELSE MaxContextTokens - totalTokens,
      MaxContextTokens>>

\* getTokenInfo, totalTokens being what its countTokens() returned:
\* [totalTokens, remainingTokens, maxTokens]
getTokenInfo(totalTokens) ==
    <<totalTokens, MaxContextTokens - totalTokens, MaxContextTokens>>

\* saveToFile on session s whose file is `file`: [sess, ok, wrote, len, file];
\* len is the length of the history handed to saveSessionHistory
saveToFile(s, file, now, fault) ==
    LET s1 == getHistory(s)
    IN  IF ~s1.ready
        THEN [sess |-> s1, ok |-> FALSE, wrote |-> FALSE, len |-> Len(s1.hist),
              file |-> file]
        ELSE LET r == saveSessionHistory(file, s1.id, s1.hist, SystemRole,
                                         getModelName(engine), now, fault)
             IN  [sess |-> s1, ok |-> r.ok, wrote |-> r.wrote,
                  len |-> Len(s1.hist), file |-> r.file]

\* loadFromFile: [sess, error]
loadFromFile(file, sessionId) ==
    LET l == loadSessionHistory(file)
    IN  IF l.error # ""
        THEN [sess |-> NoSession, error |-> l.error]
        ELSE [sess |-> initializeLLMSession(ChatSession(sessionId, l.history)),
              error |-> ""]

\* The chat handle's part of sendMessage up to the backend call: LlamaChatSession
\* pushes the user message onto its history array, which is the array
\* ChatSession._history refers to as well; the Gemini handle changes nothing yet.
handleSendStart(s, text) ==
    IF engine = "LLAMA_CPP"
    THEN LET a == Append(s.chat, Message("user", text))
         IN  [s EXCEPT !.chat = a, !.hist = a]
    ELSE s

\* The chat handle's part of sendMessage once the backend has answered (or
\* failed): [sess, raised, text]. A prompt that worked is part of the
\* backend's conversation, a prompt that failed is not.
handleSendFinish(s, text, outcome) ==
    LET exchange == <<Message("user", text), Message("model", outcome)>>
    IN  IF engine = "LLAMA_CPP"
        THEN LET responseText == IF outcome = "FAIL" THEN LlamaErrorText
                                 ELSE outcome
                 a == Append(s.chat, Message("model", responseText))
             IN  [sess |-> [s EXCEPT !.chat = a, !.hist = a,
                                     !.ctx = IF outcome = "FAIL" THEN @
                                             ELSE @ \o exchange],
                  raised |-> FALSE, text |-> responseText]
        ELSE IF outcome = "FAIL"
             THEN [sess |-> s, raised |-> TRUE, text |-> ""]
             ELSE [sess |-> [s EXCEPT !.chat = @ \o exchange,
                                      !.ctx = @ \o exchange],
                   raised |-> FALSE, text |-> outcome]

WalEntry(sessionId, prompt, responseText, totalTokens, modelName, now) ==
    [timestamp |-> now, session_id |-> sessionId, model |-> modelName,
     prompt |-> prompt, response |-> responseText, tokens_used |-> totalTokens]

\* sendMessage with a failed append raised to the caller instead of printed
sendMessageFinishStrict(s, text, outcome, walFile, now, rd, rst, wr) ==
    LET h == handleSendFinish(s, text, outcome)
        s1 == getHistory(h.sess)
        a == appendToWAL(walFile,
                         WalEntry(s1.id, text, h.text, countTokens(s1),
                                  getModelName(engine), now),
                         rd, rst, wr)
    IN  IF h.raised
        THEN [sess |-> h.sess, raised |-> TRUE, text |-> "", walTried |-> FALSE,
              walOk |-> FALSE, walIo |-> TRUE, warned |-> FALSE, wal |-> walFile]
        ELSE [sess |-> s1, raised |-> ~a.ok,
              text |-> IF a.ok THEN h.text ELSE "",
              walTried |-> TRUE, walOk |-> a.ok, walIo |-> a.io,
              warned |-> FALSE, wal |-> a.file]

\* sendMessage appending the exchange to the log a second time after the
\* first append
sendMessageFinishTwice(s, text, outcome, walFile, now, rd, rst, wr) ==
    LET h == handleSendFinish(s, text, outcome)
    IN  IF h.raised
        THEN [sess |-> h.sess, raised |-> TRUE, text |-> "", walTried |-> FALSE,
              walOk |-> FALSE, walIo |-> TRUE, warned |-> FALSE, wal |-> walFile]
        ELSE LET s1 == getHistory(h.sess)
                 e == WalEntry(s1.id, text, h.text, countTokens(s1),
                               getModelName(engine), now)
                 a == appendToWAL(appendToWAL(walFile, e, rd, rst, wr).file,
                                  e, rd, rst, wr)
             IN  [sess |-> s1, raised |-> FALSE, text |-> h.text,
                  walTried |-> TRUE, walOk |-> a.ok, walIo |-> a.io,
                  warned |-> ~a.ok, wal |-> a.file]

\* sendMessage without the getHistory() before the count: the tokens are
\* counted over _history as the call found it
sendMessageFinishUnsynced(s, text, outcome, walFile, now, rd, rst, wr) ==
    LET h == handleSendFinish(s, text, outcome)
    IN  IF h.raised
        THEN [sess |-> h.sess, raised |-> TRUE, text |-> "", walTried |-> FALSE,
              walOk |-> FALSE, walIo |-> TRUE, warned |-> FALSE, wal |-> walFile]
        ELSE LET s1 == getHistory(h.sess)
                 a == appendToWAL(walFile,
                                  WalEntry(s1.id, text, h.text, countTokens(s),
                                           getModelName(engine), now),
                                  rd, rst, wr)
             IN  [sess |-> s1, raised |-> FALSE, text |-> h.text,
                  walTried |-> TRUE, walOk |-> a.ok, walIo |-> a.io,
                  warned |-> ~a.ok, wal |-> a.file]

\* sendMessage from the backend's answer on: the history is synchronized, the
\* exchange is appended to the log, a failed append is printed as a warning.
\* [sess, raised, text, walTried, walOk, walIo, warned, wal]
sendMessageFinish(s, text, outcome, walFile, now, rd, rst, wr) ==
    LET h == handleSendFinish(s, text, outcome)
    IN  IF h.raised
        THEN [sess |-> h.sess, raised |-> TRUE, text |-> "", walTried |-> FALSE,
              walOk |-> FALSE, walIo |-> TRUE, warned |-> FALSE, wal |-> walFile]
        ELSE LET s1 == getHistory(h.sess)
                 a == appendToWAL(walFile,
                                  WalEntry(s1.id, text, h.text, countTokens(s1),
                                           getModelName(engine), now),
                                  rd, rst, wr)
             IN  [sess |-> s1, raised |-> FALSE, text |-> h.text,
                  walTried |-> TRUE, walOk |-> a.ok, walIo |-> a.io,
                  warned |-> ~a.ok, wal |-> a.file]

\* clearHistory: [sess, ok, wrote, len, file]
\* clearHistory without _initializeLLMSession: the old chat handle stays
clearHistoryStaleHandle(s, file, now, fault) ==
    saveToFile([s EXCEPT !.hist = << >>], file, now, fault)

\* clearHistory: [sess, ok, wrote, len, file]
clearHistory(s, file, now, fault) ==
    saveToFile(initializeLLMSession([s EXCEPT !.hist = << >>]), file, now, fault)

\* popLastExchange without the saveToFile that ends it
popLastExchangeUnsaved(s, file, now, fault) ==
    LET s1 == getHistory(s)
        cut == [s1 EXCEPT !.hist = SubSeq(s1.hist, 1, Len(s1.hist) - 2)]
    IN  IF Len(s1.hist) < 2
        THEN [popped |-> FALSE, sess |-> s1, ok |-> TRUE, wrote |-> FALSE,
              len |-> Len(s1.hist), file |-> file]
        ELSE [popped |-> TRUE, sess |-> initializeLLMSession(cut), ok |-> TRUE,
              wrote |-> FALSE, len |-> Len(cut.hist), file |-> file]

\* popLastExchange that refuses only an empty history
popLastExchangeLone(s, file, now, fault) ==
    LET s1 == getHistory(s)
        keep == IF Len(s1.hist) < 2 THEN 0 ELSE Len(s1.hist) - 2
        cut == [s1 EXCEPT !.hist = SubSeq(s1.hist, 1, keep)]
        sv == saveToFile(initializeLLMSession(cut), file, now, fault)
    IN  IF Len(s1.hist) < 1
        THEN [popped |-> FALSE, sess |-> s1, ok |-> TRUE, wrote |-> FALSE,
              len |-> Len(s1.hist), file |-> file]
        ELSE [popped |-> TRUE, sess |-> sv.sess, ok |-> sv.ok,
              wrote |-> sv.wrote, len |-> sv.len, file |-> sv.file]

\* popLastExchange: [popped, sess, ok, wrote, len, file]
popLastExchange(s, file, now, fault) ==
    LET s1 == getHistory(s)
    IN  IF Len(s1.hist) < 2
        THEN [popped |-> FALSE, sess |-> s1, ok |-> TRUE, wrote |-> FALSE,
              len |-> Len(s1.hist), file |-> file]
        ELSE LET cut == [s1 EXCEPT !.hist = SubSeq(s1.hist, 1, Len(s1.hist) - 2)]
                 sv == saveToFile(initializeLLMSession(cut), file, now, fault)
             IN  [popped |-> TRUE, sess |-> sv.sess, ok |-> sv.ok,
                  wrote |-> sv.wrote, len |-> sv.len, file |-> sv.file]

\* --------------------------------------------------------- SessionManager

FileOf(d, id) == IF id \in Ids THEN d[id] ELSE NoFile("absent")

PutFile(d, id, file) == IF id \in Ids THEN [d EXCEPT ![id] = file] ELSE d

\* cleanupAndSave: [sess, tried, ok, wrote, len, file]; the save's result is
\* not looked at
cleanupAndSave(s, file, now, fault) ==
    IF s = NoSession \/ isEmpty(s)
    THEN [sess |-> s, tried |-> FALSE, ok |-> TRUE, wrote |-> FALSE,
          len |-> Len(s.hist), file |-> file]
    ELSE LET sv == saveToFile(s, file, now, fault)
         IN  [sess |-> sv.sess, tried |-> TRUE, ok |-> sv.ok, wrote |-> sv.wrote,
              len |-> sv.len, file |-> sv.file]

\* switchToSession with the assignment of _currentSession moved before the
\* check of the load's error
switchToSessionEager(s, d, sessionId, now, sf) ==
    LET sv == saveToFile(s, FileOf(d, s.id), now, sf)
        d1 == PutFile(d, s.id, sv.file)
        ld == loadFromFile(FileOf(d1, sessionId), sessionId)
    IN  [sess |-> ld.sess, disk |-> d1, save |-> sv, reported |-> ~sv.ok,
         error |-> ld.error]

\* switchToSession without the save of the current session
switchToSessionUnsaved(s, d, sessionId, now, sf) ==
    LET sv == [saveToFile(s, FileOf(d, s.id), now, sf) EXCEPT
                  !.file = FileOf(d, s.id)]
        ld == loadFromFile(FileOf(d, sessionId), sessionId)
    IN  [sess |-> IF ld.error # "" THEN sv.sess ELSE ld.sess,
         disk |-> d, save |-> sv, reported |-> ~sv.ok, error |-> ld.error]

\* switchToSession that gives up, without a word, when the save of the
\* current session fails
switchToSessionSaveOrStay(s, d, sessionId, now, sf) ==
    LET sv == saveToFile(s, FileOf(d, s.id), now, sf)
        d1 == PutFile(d, s.id, sv.file)
        ld == loadFromFile(FileOf(d1, sessionId), sessionId)
    IN  IF sv.ok
        THEN [sess |-> IF ld.error # "" THEN sv.sess ELSE ld.sess,
              disk |-> d1, save |-> sv, reported |-> FALSE, error |-> ld.error]
        ELSE [sess |-> sv.sess, disk |-> d1, save |-> sv, reported |-> FALSE,
              error |-> "Failed to save"]

\* switchToSession writing the current session's history under the id it
\* switches to
switchToSessionOverTarget(s, d, sessionId, now, sf) ==
    LET sv == saveToFile(s, FileOf(d, s.id), now, sf)
        d1 == PutFile(d, sessionId, sv.file)
        ld == loadFromFile(FileOf(d1, sessionId), sessionId)
    IN  [sess |-> IF ld.error # "" THEN sv.sess ELSE ld.sess,
         disk |-> d1, save |-> sv, reported |-> ~sv.ok, error |-> ld.error]

\* switchToSession on the manager whose current session is s, over the
\* session files d: the current session is saved (a failure is printed with
\* printError: reported), then the target is loaded; _currentSession is
\* assigned only when the load worked.
\* [sess, disk, save, reported, error]; error "" is null
switchToSession(s, d, sessionId, now, sf) ==
    LET sv == saveToFile(s, FileOf(d, s.id), now, sf)
        d1 == PutFile(d, s.id, sv.file)
        ld == loadFromFile(FileOf(d1, sessionId), sessionId)
    IN  [sess |-> IF ld.error # "" THEN sv.sess ELSE ld.sess,
         disk |-> d1, save |-> sv, reported |-> ~sv.ok, error |-> ld.error]

\* createNewSession without the call of initialize() on the new session
createNewSessionUninitialized(s, d, id, now, sf) ==
    LET sv == saveToFile(s, FileOf(d, s.id), now, sf)
    IN  [sess |-> ChatSession(id, << >>),
         disk |-> PutFile(d, s.id, sv.file), save |-> sv,
         error |-> IF sv.ok THEN "" ELSE "Error writing to file"]

\* createNewSession that keeps the current session when its save fails
createNewSessionSaveOrStay(s, d, id, now, sf) ==
    LET sv == saveToFile(s, FileOf(d, s.id), now, sf)
    IN  [sess |-> IF sv.ok THEN initializeLLMSession(ChatSession(id, << >>))
                  ELSE sv.sess,
         disk |-> PutFile(d, s.id, sv.file), save |-> sv,
         error |-> IF sv.ok THEN "" ELSE "Error writing to file"]

\* createNewSession(true) on the manager whose current session is s; id is
\* what randomUUID() returns for the new session. The current session is
\* saved, its failure kept as saveError, and a new session is constructed and
\* initialized whatever the save did. [sess, disk, save, error]
createNewSession(s, d, id, now, sf) ==
    LET sv == saveToFile(s, FileOf(d, s.id), now, sf)
    IN  [sess |-> initializeLLMSession(ChatSession(id, << >>)),
         disk |-> PutFile(d, s.id, sv.file), save |-> sv,
         error |-> IF sv.ok THEN "" ELSE "Error writing to file"]

\* removeCurrentSessionAndCreateNew that keeps the current session when its
\* file could not be removed
removeCurrentSessionOrStay(s, d, id, uf) ==
    LET rm == removeSessionFile(FileOf(d, s.id), uf)
    IN  [sess |-> IF rm.ok THEN initializeLLMSession(ChatSession(id, << >>))
                  ELSE s,
         disk |-> PutFile(d, s.id, rm.file), ok |-> rm.ok, error |-> rm.error]

\* removeCurrentSessionAndCreateNew: the current session's file is removed,
\* and a new session is constructed and initialized whatever the removal
\* did. [sess, disk, ok, error]
removeCurrentSessionAndCreateNew(s, d, id, uf) ==
    LET rm == removeSessionFile(FileOf(d, s.id), uf)
    IN  [sess |-> initializeLLMSession(ChatSession(id, << >>)),
         disk |-> PutFile(d, s.id, rm.file), ok |-> rm.ok, error |-> rm.error]

\* initializeFromCLI whose fallback session takes the id that was asked for
initializeFromCLISameId(d, cli, id) ==
    LET ld == loadFromFile(FileOf(d, cli), cli)
    IN  IF cli # 0 /\ ld.error = ""
        THEN [sess |-> ld.sess, fresh |-> FALSE, error |-> ""]
        ELSE [sess |-> initializeLLMSession(
                          ChatSession(IF cli # 0 THEN cli ELSE id, << >>)),
              fresh |-> cli = 0, error |-> IF cli # 0 THEN ld.error ELSE ""]

\* initializeFromCLI(cliSessionId) over the session files d; cli = 0 is null,
\* id is what randomUUID() returns if a new session is constructed: the
\* session asked for if it loads, a new session under a new id otherwise.
\* [sess, fresh, error]
initializeFromCLI(d, cli, id) ==
    LET ld == loadFromFile(FileOf(d, cli), cli)
    IN  IF cli # 0 /\ ld.error = ""
        THEN [sess |-> ld.sess, fresh |-> FALSE, error |-> ""]
        ELSE [sess |-> initializeLLMSession(ChatSession(id, << >>)),
              fresh |-> TRUE, error |-> IF cli # 0 THEN ld.error ELSE ""]

\* the SIGINT/SIGTERM handler without its try/catch: an error of
\* cleanupAndSave leaves the handler as an unhandled rejection
signalHandlerBare(raised) ==
    [pc |-> IF raised THEN "crashed" ELSE "exited", errPrinted |-> FALSE]

\* the SIGINT/SIGTERM handler around cleanupAndSave: an error raised in it
\* is caught and printed, then process.exit(0). [pc, errPrinted]
signalHandler(raised) ==
    [pc |-> "exited", errPrinted |-> raised]

\* what is known of a session that is not the active one: the (role, text)
\* history it had when switchToSession last left it, and whether that
\* switch's save reported success
NoLeft == [hist |-> << >>, saved |-> FALSE]

\* What an operation returned and printed (warned: printWarning was called;
\* errPrinted: printError was called), and what it started from: the active
\* session (prev), that session's file and the log file as the operation
\* found them, for a switch or a load the id asked for (target), its file as
\* found (targetBefore) and what was known of it (back), for a load of the
\* store the history returned (loaded); saveReported: the failure of the
\* save was printed; listing: what listSessions returned; counted: what the
\* tokenizer counted for getTokenInfo and for getRemainingTokens, tokenInfo
\* and remaining: what the two returned. The fields an
\* operation does not set keep the values given here.
ResultOf(op, prev, fileBefore, walBefore) ==
    [op |-> op, prev |-> prev, fileBefore |-> fileBefore,
     walBefore |-> walBefore, back |-> NoLeft, target |-> 0,
     targetBefore |-> NoFile("absent"), loaded |-> << >>, outcome |-> "",
     raised |-> FALSE, response |-> "", walTried |-> FALSE,
     walOk |-> FALSE, walIo |-> TRUE, warned |-> FALSE, errPrinted |-> FALSE,
     saveTried |-> FALSE, saveOk |-> TRUE, saveWrote |-> FALSE, saveLen |-> 0,
     saveReported |-> FALSE, loadOk |-> FALSE, err |-> "", ok |-> FALSE,
     listing |-> << >>, counted |-> <<0, 0>>, tokenInfo |-> <<0, 0, 0>>,
     remaining |-> 0]

Result(op) == ResultOf(op, cur, FileOf(disk, cur.id), wal)

\* the file-system calls that failed in one operation, counted against the
\* run's budget of faults: bad is the set of failed calls
Inject(bad) ==
    /\ faults + Cardinality(bad) <= MaxFaults
    /\ faults' = faults + Cardinality(bad)

\* a save that reached writeFileSync and failed there
SaveFault(sv) == IF sv.wrote /\ ~sv.ok THEN {"save"} ELSE {}

\* a record an earlier run of the program left behind
StoredRecord(id, eng) ==
    [kind |-> "record", session_id |-> id, model |-> getModelName(eng),
     system_role |-> SystemRole,
     history |-> <<[role |-> "user", text |-> "hi", ts |-> 1],
                   [role |-> "model", text |-> "yo", ts |-> 1]>>]

\* a record whose model message has an empty text: what saveSessionHistory
\* writes for a message without text (parts[0]?.text || '')
StoredRecordNoText(id, eng) ==
    [StoredRecord(id, eng) EXCEPT
       !.history = <<[role |-> "user", text |-> "hi", ts |-> 1],
                     [role |-> "model", text |-> "", ts |-> 1]>>]

StoredFiles(id, eng) ==
    {NoFile("absent"), NoFile("corrupt"), NoFile("malformed"),
     StoredRecord(id, eng), StoredRecordNoText(id, eng)}

\* The state before initChat: the session files and the log file are what
\* earlier runs (or anything else) left in LOG_DIR.
InitEngines(engines, storedKinds, walKinds) ==
    /\ engine \in engines
    /\ pc = "start"
    /\ cur = NoSession
    /\ \E d \in [Ids -> UNION {StoredFiles(i, engine) : i \in Ids}] :
          /\ \A i \in Ids : IF i \in StoredIds
                            THEN d[i] \in StoredFiles(i, engine) /\ d[i].kind \in storedKinds
                            ELSE d[i] = NoFile("absent")
          /\ disk = d
    /\ wal \in {WalFile(k, << >>) : k \in walKinds}
    /\ nextId = MaxStored + 1
    /\ clock = 2
    /\ pending = ""
    /\ last = ResultOf("init", NoSession, NoFile("absent"), wal)
    /\ left = [i \in Ids |-> NoLeft]
    /\ saveFailed = FALSE
    /\ faults = 0

\* with an ENGINE that ENGINE_MAPPING knows
InitOver(storedKinds, walKinds) == InitEngines(Engines, storedKinds, walKinds)

\* initChat: initializeFromCLI(cliSessionId); cli = 0 is null. The error
\* initialize() raises for an ENGINE it rejects leaves initializeFromCLI
\* before _currentSession is assigned and ends the process in main().
InitializeFromCLI(cli) ==
    /\ pc = "start"
    /\ UNCHANGED faults
    /\ LET r == initializeFromCLI(disk, cli, nextId)
           res == [Result("startup") EXCEPT
                     !.target = cli, !.targetBefore = FileOf(disk, cli)]
       IN  IF engineRejected(engine)
           THEN /\ cur' = NoSession
                /\ nextId' = IF r.fresh THEN nextId + 1 ELSE nextId
                /\ last' = [res EXCEPT !.raised = TRUE, !.err = "ENGINE",
                                       !.errPrinted = TRUE]
                /\ pc' = "failed"
           ELSE /\ cur' = IF isEmpty(r.sess) THEN r.sess ELSE getHistory(r.sess)
                /\ nextId' = IF r.fresh THEN nextId + 1 ELSE nextId
                /\ last' = [res EXCEPT !.loadOk = (cli # 0 /\ r.error = ""),
                                       !.err = r.error,
                                       !.errPrinted = r.error # ""]
                /\ pc' = "prompt"
    /\ UNCHANGED <<engine, disk, wal, clock, pending, left, saveFailed>>

\* mainLoop, a message: sendMessage runs up to the backend call
TurnStart(text) ==
    /\ pc = "prompt"
    /\ UNCHANGED faults
    /\ clock < MaxTurns + 2
    /\ cur' = handleSendStart(cur, text)
    /\ pending' = text
    /\ clock' = clock + 1
    /\ pc' = "awaitBackend"
    /\ last' = Result("sendStart")
    /\ UNCHANGED <<engine, disk, wal, nextId, left, saveFailed>>

\* mainLoop, the rest of the turn: the backend answers or fails, sendMessage
\* finishes, getTokenInfo, saveToFile; an exception ends the loop, and
\* cleanupAndSave runs before the process ends. The result's prev is the
\* session as sendMessage found it.
BackendReturn(outcome, rd, rst, wr, sf) ==
    /\ pc = "awaitBackend"
    /\ LET r == sendMessageFinish(cur, pending, outcome, wal, clock, rd, rst, wr)
       IN  Inject((IF r.walIo THEN {} ELSE {"wal"}) \cup
                  (IF r.raised
                   THEN SaveFault(cleanupAndSave(r.sess, FileOf(disk, cur.id), clock, sf))
                   ELSE SaveFault(saveToFile(r.sess, FileOf(disk, cur.id), clock, sf))))
    /\ LET r == sendMessageFinish(cur, pending, outcome, wal, clock, rd, rst, wr)
           sv == saveToFile(r.sess, FileOf(disk, r.sess.id), clock, sf)
           cu == cleanupAndSave(r.sess, FileOf(disk, r.sess.id), clock, sf)
           res == [ResultOf("turn", last.prev, last.fileBefore, last.walBefore)
                   EXCEPT !.outcome = outcome,
                          !.raised = r.raised, !.response = r.text,
                          !.walTried = r.walTried, !.walOk = r.walOk,
                          !.walIo = r.walIo, !.warned = r.warned]
       IN  IF r.raised
           THEN /\ cur' = cu.sess
                /\ disk' = PutFile(disk, cu.sess.id, cu.file)
                /\ wal' = wal
                /\ pc' = "exited"
                /\ last' = [res EXCEPT !.saveTried = cu.tried, !.saveOk = cu.ok,
                                       !.saveWrote = cu.wrote,
                                       !.saveLen = cu.len,
                                       !.errPrinted = TRUE]
                /\ saveFailed' = (saveFailed \/ ~cu.ok)
           ELSE /\ cur' = sv.sess
                /\ disk' = PutFile(disk, sv.sess.id, sv.file)
                /\ wal' = r.wal
                /\ pc' = "prompt"
                /\ last' = [res EXCEPT !.saveTried = TRUE, !.saveOk = sv.ok,
                                       !.saveWrote = sv.wrote,
                                       !.saveLen = sv.len,
                                       !.errPrinted = ~sv.ok]
                /\ saveFailed' = (saveFailed \/ ~sv.ok)
    /\ pending' = ""
    /\ UNCHANGED <<engine, nextId, clock, left>>

\* /switch <id>: handleCommand calls switchToSession unless the id is the
\* current one, and shows the loaded session's getHistory() if it has one
SwitchToSession(sessionId, sf) ==
    /\ pc = "prompt"
    /\ sessionId # cur.id
    /\ Inject(SaveFault(switchToSession(cur, disk, sessionId, clock, sf).save))
    /\ LET sw == switchToSession(cur, disk, sessionId, clock, sf)
           res == [Result("switch") EXCEPT
                     !.back = left[sessionId],
                     !.target = sessionId,
                     !.targetBefore = FileOf(disk, sessionId),
                     !.saveReported = sw.reported,
                     !.saveTried = TRUE, !.saveOk = sw.save.ok,
                     !.saveWrote = sw.save.wrote, !.saveLen = sw.save.len,
                     !.errPrinted = ~sw.save.ok]
       IN  /\ disk' = sw.disk
           /\ saveFailed' = (saveFailed \/ ~sw.save.ok)
           /\ IF sw.error # ""
              THEN /\ cur' = sw.sess
                   /\ last' = [res EXCEPT !.err = sw.error, !.errPrinted = TRUE]
                   /\ left' = left
              ELSE /\ cur' = IF isEmpty(sw.sess) THEN sw.sess
                             ELSE getHistory(sw.sess)
                   /\ last' = [res EXCEPT !.loadOk = TRUE]
                   /\ left' = [left EXCEPT
                                 ![cur.id] = [hist |-> Plain(sw.save.sess.hist),
                                              saved |-> sw.save.ok],
                                 ![sessionId] = NoLeft]
    /\ UNCHANGED <<engine, pc, wal, nextId, clock, pending>>

\* /session new: createNewSession(true)
CreateNewSession(sf) ==
    /\ pc = "prompt"
    /\ nextId \in Ids
    /\ Inject(SaveFault(createNewSession(cur, disk, nextId, clock, sf).save))
    /\ LET n == createNewSession(cur, disk, nextId, clock, sf)
       IN  /\ cur' = n.sess
           /\ disk' = n.disk
           /\ saveFailed' = (saveFailed \/ ~n.save.ok)
           /\ last' = [Result("new") EXCEPT
                         !.saveTried = TRUE, !.saveOk = n.save.ok,
                         !.saveWrote = n.save.wrote, !.saveLen = n.save.len,
                         !.err = n.error,
                         !.saveReported = n.error # "",
                         !.errPrinted = n.error # ""]
    /\ nextId' = nextId + 1
    /\ UNCHANGED <<engine, pc, wal, clock, pending, left>>

\* /session remove: removeCurrentSessionAndCreateNew
RemoveCurrentSessionAndCreateNew(uf) ==
    /\ pc = "prompt"
    /\ Inject(IF FileOf(disk, cur.id).kind # "absent" /\ uf # "ok" THEN {"unlink"} ELSE {})
    /\ nextId \in Ids
    /\ LET rm == removeCurrentSessionAndCreateNew(cur, disk, nextId, uf)
       IN  /\ cur' = rm.sess
           /\ disk' = rm.disk
           /\ last' = [Result("remove") EXCEPT
                         !.ok = rm.ok, !.err = rm.error, !.warned = ~rm.ok]
    /\ nextId' = nextId + 1
    /\ UNCHANGED <<engine, pc, wal, clock, pending, left, saveFailed>>

\* /session pop: popLastExchange, then the summary reads getHistory()
PopLastExchange(sf) ==
    /\ pc = "prompt"
    /\ Inject(SaveFault(popLastExchange(cur, FileOf(disk, cur.id), clock, sf)))
    /\ LET p == popLastExchange(cur, FileOf(disk, cur.id), clock, sf)
       IN  /\ cur' = IF p.popped THEN getHistory(p.sess) ELSE p.sess
           /\ disk' = PutFile(disk, cur.id, p.file)
           /\ saveFailed' = (saveFailed \/ ~p.ok)
           /\ last' = [Result("pop") EXCEPT
                         !.ok = p.popped, !.saveTried = p.popped,
                         !.saveOk = p.ok, !.saveWrote = p.wrote,
                         !.saveLen = p.len, !.errPrinted = ~p.popped]
    /\ UNCHANGED <<engine, pc, wal, nextId, clock, pending, left>>

\* /session clear: clearHistory
ClearHistory(sf) ==
    /\ pc = "prompt"
    /\ Inject(SaveFault(clearHistory(cur, FileOf(disk, cur.id), clock, sf)))
    /\ LET c == clearHistory(cur, FileOf(disk, cur.id), clock, sf)
       IN  /\ cur' = c.sess
           /\ disk' = PutFile(disk, cur.id, c.file)
           /\ saveFailed' = (saveFailed \/ ~c.ok)
           /\ last' = [Result("clear") EXCEPT
                         !.saveTried = TRUE, !.saveOk = c.ok,
                         !.saveWrote = c.wrote, !.saveLen = c.len]
    /\ UNCHANGED <<engine, pc, wal, nextId, clock, pending, left>>

\* /exit, /quit, or the prompt closed by Ctrl+C: the loop ends, cleanupAndSave
Exit(sf) ==
    /\ pc = "prompt"
    /\ Inject(SaveFault(cleanupAndSave(cur, FileOf(disk, cur.id), clock, sf)))
    /\ LET cu == cleanupAndSave(cur, FileOf(disk, cur.id), clock, sf)
       IN  /\ cur' = cu.sess
           /\ disk' = PutFile(disk, cur.id, cu.file)
           /\ saveFailed' = (saveFailed \/ ~cu.ok)
           /\ last' = [Result("exit") EXCEPT
                         !.saveTried = cu.tried, !.saveOk = cu.ok,
                         !.saveWrote = cu.wrote, !.saveLen = cu.len]
    /\ pc' = "exited"
    /\ UNCHANGED <<engine, wal, nextId, clock, pending, left>>

\* SIGINT or SIGTERM while the backend call is in flight: the handler runs
\* cleanupAndSave. LlamaChatSession.getHistory returns at once; the Gemini
\* wrapper's getHistory awaits the handle, which answers only when its send
\* in flight has ended. `from` is where the main loop is, `wait` where the
\* process is once the handler waits on the handle.
SignalAt(from, wait, sf) ==
    /\ pc = from
    /\ Inject(IF engine = "LLAMA_CPP" \/ isEmpty(cur)
              THEN SaveFault(cleanupAndSave(cur, FileOf(disk, cur.id), clock, sf))
              ELSE {})
    /\ IF engine = "LLAMA_CPP" \/ isEmpty(cur)
       THEN LET cu == cleanupAndSave(cur, FileOf(disk, cur.id), clock, sf)
            IN  /\ cur' = cu.sess
                /\ disk' = PutFile(disk, cur.id, cu.file)
                /\ saveFailed' = (saveFailed \/ ~cu.ok)
                /\ last' = [Result("signal") EXCEPT
                              !.saveTried = cu.tried, !.saveOk = cu.ok,
                              !.saveWrote = cu.wrote, !.saveLen = cu.len,
                              !.errPrinted = signalHandler(FALSE).errPrinted]
                /\ pc' = signalHandler(FALSE).pc
       ELSE /\ pc' = wait
            /\ last' = Result("signalWait")
            /\ UNCHANGED <<cur, disk, saveFailed>>
    /\ UNCHANGED <<engine, wal, nextId, clock, pending, left>>

\* the signal arrives while the backend call is in flight
Signal(sf) == SignalAt("awaitBackend", "cleanupWait", sf)

\* the handler's saveToFile goes on once the send in flight has ended: with
\* the handle's history if the send worked, with the send's error if not
\* (caught by the handler and printed); then process.exit(0). No result of
\* the save is looked at.
SignalResume(outcome, sf) ==
    /\ pc = "cleanupWait"
    /\ LET h == handleSendFinish(cur, pending, outcome)
       IN  Inject(IF h.raised THEN {}
                  ELSE SaveFault(saveToFile(h.sess, FileOf(disk, cur.id), clock, sf)))
    /\ LET h == handleSendFinish(cur, pending, outcome)
           sv == saveToFile(h.sess, FileOf(disk, cur.id), clock, sf)
       IN  IF h.raised
           THEN /\ last' = [Result("signal") EXCEPT
                              !.raised = TRUE,
                              !.errPrinted = signalHandler(TRUE).errPrinted]
                /\ UNCHANGED <<cur, disk, saveFailed>>
           ELSE /\ cur' = sv.sess
                /\ disk' = PutFile(disk, cur.id, sv.file)
                /\ saveFailed' = (saveFailed \/ ~sv.ok)
                /\ last' = [Result("signal") EXCEPT
                              !.saveTried = TRUE, !.saveOk = sv.ok,
                              !.saveWrote = sv.wrote, !.saveLen = sv.len,
                              !.errPrinted = signalHandler(FALSE).errPrinted]
    /\ pc' = signalHandler(handleSendFinish(cur, pending, outcome).raised).pc
    /\ pending' = ""
    /\ UNCHANGED <<engine, wal, nextId, clock, left>>

\* the next-state relation, with the faults the log file's calls (WF) and
\* the session files' calls (SF) may show
NextOver(WF, SF) ==
    \/ \E cli \in {0} \cup StoredIds : InitializeFromCLI(cli)
    \/ \E text \in UserTexts : TurnStart(text)
    \/ \E outcome \in BackendOutcomes, rd, rst, wr \in WF, sf \in SF :
          BackendReturn(outcome, rd, rst, wr, sf)
    \/ \E sessionId \in Ids, sf \in SF : SwitchToSession(sessionId, sf)
    \/ \E sf \in SF : CreateNewSession(sf)
    \/ \E uf \in SF : RemoveCurrentSessionAndCreateNew(uf)
    \/ \E sf \in SF : PopLastExchange(sf)
    \/ \E sf \in SF : ClearHistory(sf)
    \/ \E sf \in SF : Exit(sf)
    \/ \E sf \in SF : Signal(sf)
    \/ \E outcome \in BackendOutcomes, sf \in SF : SignalResume(outcome, sf)

\* The sessions: any session files to start from, faults in the session
\* files' calls, a log file that works.
Init == InitOver({"absent", "corrupt", "malformed", "record"}, {"absent"})

Next == NextOver({"ok"}, Faults)

Spec == Init /\ [][Next]_vars

\* The log: any log file to start from, faults in the log file's calls,
\* session files that work.
InitWal == InitOver({"absent", "record"}, WalKinds)

NextWal == NextOver(Faults, {"ok"})

SpecWal == InitWal /\ [][NextWal]_vars

\* The configuration: any value of ENGINE, session files and a log file
\* that work.
InitConfig == InitEngines(ConfiguredEngines, {"absent", "record"}, {"absent"})

NextConfig == NextOver({"ok"}, {"ok"})

SpecConfig == InitConfig /\ [][NextConfig]_vars

\* The stalled backend: a backend call in flight may turn out never to
\* return; session files and a log file that work. A call that has not
\* stalled ends, and the event loop then runs what waits for it: weak
\* fairness of the two continuations.
BackendStalls ==
    /\ pc = "awaitBackend"
    /\ pc' = "awaitStalled"
    /\ UNCHANGED <<engine, cur, disk, wal, nextId, clock, pending, last, left,
                   saveFailed, faults>>

\* the signal arrives while the stalled call is in flight
SignalStalled(sf) == SignalAt("awaitStalled", "cleanupStalled", sf)

InitStall == InitOver({"absent", "record"}, {"absent"})

NextStall ==
    \/ NextOver({"ok"}, {"ok"})
    \/ BackendStalls
    \/ \E sf \in {"ok"} : SignalStalled(sf)

SpecStall ==
    /\ InitStall
    /\ [][NextStall]_vars
    /\ WF_vars(\E outcome \in BackendOutcomes, rd, rst, wr, sf \in {"ok"} :
                   BackendReturn(outcome, rd, rst, wr, sf))
    /\ WF_vars(\E outcome \in BackendOutcomes, sf \in {"ok"} :
                   SignalResume(outcome, sf))

\* The session store on its own: saveSessionHistory and loadSessionHistory
\* applied to any history of up to MaxLen messages, with or without
\* timestamps (0: none, 1: a time before the run), and texts that may be
\* empty, and listSessions, over any files found in LOG_DIR but a record of
\* the session itself.
StoreMessages == [role : {"user", "model"}, text : {"", "hi"}, ts : {0, 1}]

StoreHistories == UNION {[1..n -> StoreMessages] : n \in 0..MaxLen}

InitStore ==
    /\ engine \in Engines
    /\ pc = "store"
    /\ cur \in {ChatSession(1, h) : h \in StoreHistories}
    /\ \E d \in [Ids -> UNION {StoredFiles(i, engine) : i \in Ids}] :
          /\ d[1].kind # "record"
          /\ \A i \in Ids : d[i] \in StoredFiles(i, engine)
          /\ disk = d
    /\ wal = WalFile("absent", << >>)
    /\ nextId = MaxStored + 1
    /\ clock = 2
    /\ pending = ""
    /\ last = ResultOf("init", NoSession, NoFile("absent"), wal)
    /\ left = [i \in Ids |-> NoLeft]
    /\ saveFailed = FALSE
    /\ faults = 0

\* saveSessionHistory(sessionId, history, systemPrompt, modelName) at time clock
StoreSave ==
    /\ pc = "store"
    /\ clock < MaxSaves + 2
    /\ LET r == saveSessionHistory(FileOf(disk, cur.id), cur.id, cur.hist,
                                   SystemRole, getModelName(engine), clock, "ok")
       IN  /\ disk' = PutFile(disk, cur.id, r.file)
           /\ last' = [Result("save") EXCEPT
                         !.saveTried = TRUE, !.saveOk = r.ok,
                         !.saveWrote = r.wrote, !.saveLen = Len(cur.hist)]
    /\ clock' = clock + 1
    /\ UNCHANGED <<engine, pc, cur, wal, nextId, pending, left, saveFailed,
                   faults>>

\* loadSessionHistory(sessionId)
StoreLoad ==
    /\ pc = "store"
    /\ LET l == loadSessionHistory(FileOf(disk, cur.id))
       IN  last' = [Result("load") EXCEPT
                      !.target = cur.id, !.targetBefore = FileOf(disk, cur.id),
                      !.loaded = l.history, !.loadOk = (l.error = ""),
                      !.err = l.error]
    /\ UNCHANGED <<engine, pc, cur, disk, wal, nextId, clock, pending, left,
                   saveFailed, faults>>

\* listSessions()
StoreList ==
    /\ pc = "store"
    /\ last' = [Result("list") EXCEPT !.listing = listSessions(disk)]
    /\ UNCHANGED <<engine, pc, cur, disk, wal, nextId, clock, pending, left,
                   saveFailed, faults>>

NextStore == StoreSave \/ StoreLoad \/ StoreList

SpecStore == InitStore /\ [][NextStore]_vars

\* The token queries on their own: getTokenInfo() and getRemainingTokens()
\* on an initialized session of any history of up to MaxLen messages, the
\* tokenizer counting anything from nothing to more than the context holds.
TokenCounts == {0, 7, MaxContextTokens - 1, MaxContextTokens,
                MaxContextTokens + 1, 3 * MaxContextTokens}

InitTokens ==
    /\ engine \in Engines
    /\ pc = "tokens"
    /\ cur \in {initializeLLMSession(ChatSession(1, h)) : h \in StoreHistories}
    /\ disk = [i \in Ids |-> NoFile("absent")]
    /\ wal = WalFile("absent", << >>)
    /\ nextId = MaxStored + 1
    /\ clock = 2
    /\ pending = ""
    /\ last = ResultOf("init", NoSession, NoFile("absent"), wal)
    /\ left = [i \in Ids |-> NoLeft]
    /\ saveFailed = FALSE
    /\ faults = 0

\* getTokenInfo() then getRemainingTokens(); n1 and n2 are what the
\* tokenizer counts in the first and in the second call
TokenQueries(n1, n2) ==
    /\ pc = "tokens"
    /\ last' = [Result("tokens") EXCEPT
                  !.counted = <<n1, n2>>,
                  !.tokenInfo = getTokenInfo(countTokensOf(cur, n1)),
                  !.remaining = getRemainingTokens(countTokensOf(cur, n2))]
    /\ UNCHANGED <<engine, pc, cur, disk, wal, nextId, clock, pending, left,
                   saveFailed, faults>>

NextTokens == \E n1, n2 \in TokenCounts : TokenQueries(n1, n2)

SpecTokens == InitTokens /\ [][NextTokens]_vars

\* ------------------------------------------------------------- properties

IsPrefix(s, t) == Len(s) <= Len(t) /\ SubSeq(t, 1, Len(s)) = s

\* the entries a log file holds
Entries(w) == IF w.kind = "array" THEN w.entries ELSE << >>

\* the content of a file, an absent file and a file of size 0 being both "nothing"
Content(w) == IF w.kind \in {"absent", "empty"} THEN WalFile("empty", << >>) ELSE w

\* C1: every sendMessage call returns and leaves the history exactly two
\* messages longer than it found it, a user message followed by a model
\* message, whatever the backend did (an answer, or a failure, for which a
\* placeholder answer is appended).
C1_SendAddsUserAndModel ==
    last.op = "turn" =>
        /\ ~last.raised
        /\ Len(cur.hist) = Len(last.prev.hist) + 2
        /\ Plain(SubSeq(cur.hist, 1, Len(last.prev.hist))) = Plain(last.prev.hist)
        /\ cur.hist[Len(cur.hist) - 1].role = "user"
        /\ cur.hist[Len(cur.hist)].role = "model"

\* C2: a switchToSession whose target has no record, or a record that is not
\* well-formed, returns the load error and leaves the active session what it
\* was: same id, same history, still usable.
C2_FailedSwitchKeepsSession ==
    (last.op = "switch" /\ ~last.loadOk) =>
        /\ last.err # ""
        /\ cur.id = last.prev.id
        /\ cur.hist = last.prev.hist
        /\ cur.ready

C2_FailedSwitchReached ==
    /\ last.op = "switch"
    /\ ~last.loadOk
    /\ last.err \in {"Cannot decode log file", "Error reading session file"}
    /\ Len(cur.hist) >= 2
    /\ cur.id = last.prev.id

\* C3: after a successful switch away from a session with at least one
\* exchange whose save did not fail, that session's record holds its history
\* as of the switch (roles, texts, order); and a successful switch to a
\* session that was left this way restores exactly that history.
C3_SwitchSavesThenRestores ==
    /\ (/\ last.op = "switch"
        /\ last.loadOk
        /\ last.saveOk
        /\ Len(last.prev.hist) >= 2)
       => /\ FileOf(disk, last.prev.id).kind = "record"
          /\ Plain(FileOf(disk, last.prev.id).history) = Plain(last.prev.hist)
          /\ left[last.prev.id].hist = Plain(last.prev.hist)
    /\ (/\ last.op = "switch"
        /\ last.loadOk
        /\ last.back.saved
        /\ Len(last.back.hist) >= 2)
       => Plain(cur.hist) = last.back.hist

C3_SwitchedBackReached ==
    /\ last.op = "switch"
    /\ last.loadOk
    /\ last.saveOk
    /\ last.back.saved
    /\ Len(last.back.hist) >= 2
    /\ Plain(cur.hist) = last.back.hist
    /\ Len(last.prev.hist) >= 2

C5_InvalidLogHeals ==
    (/\ last.op = "turn"
     /\ last.walTried
     /\ last.walIo
     /\ last.walBefore.kind \in {"garbage", "nonarray"})
    => /\ last.walOk
       /\ wal.kind = "array"
       /\ Len(wal.entries) = 1

\* C6: an append that returns success leaves the prior entries followed by
\* the new one; an append that returns failure leaves the file's content
\* exactly what it was before the call.
C6_AppendIsAtomic ==
    (last.op = "turn" /\ last.walTried) =>
        /\ last.walOk =>
              /\ wal.kind = "array"
              /\ Len(wal.entries) = Len(Entries(last.walBefore)) + 1
              /\ IsPrefix(Entries(last.walBefore), wal.entries)
        /\ ~last.walOk => Content(wal) = Content(last.walBefore)

\* C7: whatever the operation, the entries the log held before it are still
\* there after it, in order, as a prefix of the log.
C7_LogOnlyGrows ==
    IsPrefix(Entries(last.walBefore), Entries(wal))

\* C8: a turn whose log append fails is not aborted: sendMessage returns
\* the backend's response without raising, the history in memory has the
\* turn's messages, a warning is printed, and the main loop goes on.
C8_WalFailureKeepsTurn ==
    (/\ last.op = "turn"
     /\ last.walTried
     /\ ~last.walOk)
    => /\ ~last.raised
       /\ last.warned
       /\ last.response = (IF last.outcome = "FAIL" THEN LlamaErrorText
                           ELSE last.outcome)
       /\ IsPrefix(Plain(last.prev.hist), Plain(cur.hist))
       /\ Len(cur.hist) > Len(last.prev.hist)
       /\ cur.hist[Len(last.prev.hist) + 1].role = "user"
       /\ pc = "prompt"

C8_WalFailureReached ==
    /\ last.op = "turn"
    /\ last.walTried
    /\ ~last.walOk
    /\ ~last.walIo
    /\ last.warned
    /\ last.response = "yo"
    /\ Len(cur.hist) = Len(last.prev.hist) + 2

\* C9: a turn whose backend call fails completes: sendMessage returns the
\* placeholder response instead of raising, the exchange is appended to the
\* log, and the main loop goes on.
C9_BackendFailureKeepsTurn ==
    (last.op = "turn" /\ last.outcome = "FAIL") =>
        /\ ~last.raised
        /\ last.response = LlamaErrorText
        /\ last.walTried
        /\ pc = "prompt"

\* C10: a save of a history of fewer than two messages returns success and
\* leaves the session's file as it was; and every record on disk has at
\* least two messages.
C10_NoRecordBelowTwo ==
    /\ (last.saveTried /\ last.saveLen < 2) =>
          /\ last.saveOk
          /\ FileOf(disk, last.prev.id) = last.fileBefore
    /\ \A i \in Ids : disk[i].kind = "record" => Len(disk[i].history) >= 2

C10_SaveBelowTwoReached ==
    /\ last.op = "clear"
    /\ last.saveTried
    /\ last.saveLen < 2
    /\ last.saveOk
    /\ last.fileBefore.kind = "record"
    /\ FileOf(disk, cur.id) = last.fileBefore

\* C11 as stated: a history of at least two messages that was saved and is
\* then loaded comes back equal, message by message, in role, text and timestamp.
C11_RoundTripExact ==
    (/\ last.op = "load"
     /\ Len(cur.hist) >= 2
     /\ last.targetBefore.kind = "record")
    => /\ last.loadOk
       /\ last.loaded = cur.hist

\* C11 as it holds: a history of at least two messages that was saved and is
\* then loaded comes back with the same roles and texts in the same order,
\* and with the same timestamp for every message that had one; a message
\* that had no timestamp comes back with the time of the save (clock - 1 is
\* the time of the latest save).
C11_RoundTripStamped ==
    (/\ last.op = "load"
     /\ Len(cur.hist) >= 2
     /\ last.targetBefore.kind = "record")
    => /\ last.loadOk
       /\ Len(last.loaded) = Len(cur.hist)
       /\ \A i \in 1..Len(cur.hist) :
             /\ last.loaded[i].role = cur.hist[i].role
             /\ last.loaded[i].text = cur.hist[i].text
             /\ last.loaded[i].ts = IF cur.hist[i].ts # 0 THEN cur.hist[i].ts
                                    ELSE clock - 1

C11_MixedStampsLoaded ==
    /\ last.op = "load"
    /\ last.loadOk
    /\ Len(cur.hist) = 2
    /\ cur.hist[1].ts = 0
    /\ cur.hist[2].ts = 1
    /\ last.loaded[1].ts = clock - 1
    /\ last.loaded[2].ts = 1

\* C12: popLastExchange on a history of length 0 or 1 returns false and
\* changes nothing (history, chat handle, session file); on a history of
\* length 2 or more it returns true and the history is the previous one
\* without its last two messages.
C12_PopRemovesLastTwoOrNothing ==
    last.op = "pop" =>
        IF Len(last.prev.hist) < 2
        THEN /\ ~last.ok
             /\ cur = last.prev
             /\ ~last.saveWrote
             /\ FileOf(disk, cur.id) = last.fileBefore
        ELSE /\ last.ok
             /\ cur.id = last.prev.id
             /\ cur.hist = SubSeq(last.prev.hist, 1, Len(last.prev.hist) - 2)

C12_LoneMessageKept ==
    /\ last.op = "pop"
    /\ ~last.ok
    /\ Len(last.prev.hist) = 1
    /\ cur.hist = last.prev.hist

\* C13: after a popLastExchange that returned true and whose save did not
\* fail, the session's record holds exactly the truncated history, whatever
\* the length before the pop.
C13_PopPersisted ==
    (/\ last.op = "pop"
     /\ last.ok
     /\ last.saveOk)
    => /\ FileOf(disk, cur.id).kind = "record"
       /\ Plain(FileOf(disk, cur.id).history) = Plain(cur.hist)

\* C14: right after a chat handle was created for a session (load at
\* startup, switch, pop, clear), the conversation the backend holds for the
\* next send is the session's history, for every backend.
C14_HandleReplaysHistory ==
    (\/ last.op \in {"startup", "switch"} /\ last.loadOk
     \/ last.op = "pop" /\ last.ok
     \/ last.op = "clear")
    => Plain(cur.ctx) = Plain(cur.hist)

\* C15: createNewSession(true) tries to save the current session, returns
\* the save's failure if there was one, and in every case ends with a new,
\* initialized, empty session as the active one.
C15_NewSessionWhateverTheSave ==
    last.op = "new" =>
        /\ last.saveTried
        /\ (last.err # "") = ~last.saveOk
        /\ cur.ready
        /\ cur.hist = << >>
        /\ cur.chat = << >>
        /\ cur.id # last.prev.id
        /\ FileOf(disk, cur.id).kind = "absent"

C15_NewAfterFailedSave ==
    /\ last.op = "new"
    /\ ~last.saveOk
    /\ last.err # ""
    /\ cur.ready
    /\ cur.hist = << >>
    /\ cur.id # last.prev.id

C17_CleanupReportsSave ==
    last.op \in {"exit", "signal"} /\ ~last.raised =>
        IF isEmpty(last.prev)
        THEN /\ ~last.saveTried
             /\ FileOf(disk, last.prev.id) = last.fileBefore
        ELSE /\ last.saveTried
             /\ ~last.saveOk =>
                   (last.errPrinted \/ last.warned \/ last.saveReported)

\* C18: when cleanupAndSave raises inside the SIGINT/SIGTERM handler, the
\* error is printed and the process ends through the handler's exit.
C18_HandlerContainsFailure ==
    last.op = "signal" =>
        /\ pc = "exited"
        /\ last.raised => last.errPrinted

C18_HandlerCaughtFailure ==
    /\ last.op = "signal"
    /\ last.raised
    /\ last.errPrinted
    /\ pc = "exited"

\* a session file left undecodable by something other than this run
Undecodable(f) == f.kind \in {"corrupt", "malformed"}

\* C19: a session file that cannot be decoded is never changed: a load that
\* failed (at startup or in a switch) leaves the file as it was and the
\* active session under another id than the one asked for, and no step of
\* the program changes such a file.
C19_UndecodableUntouched ==
    /\ []((/\ last.op \in {"startup", "switch"}
           /\ last.target # 0
           /\ ~last.loadOk)
          => /\ FileOf(disk, last.target) = last.targetBefore
             /\ cur.id # last.target)
    /\ [][\A i \in Ids : Undecodable(disk[i]) => disk'[i] = disk[i]]_vars

C19_SavedBesideUndecodable ==
    /\ last.op = "switch"
    /\ ~last.loadOk
    /\ Undecodable(last.targetBefore)
    /\ FileOf(disk, last.target) = last.targetBefore
    /\ FileOf(disk, cur.id).kind = "record"
    /\ cur.id = MaxStored + 1

\* C20: when the save of the current session fails in switchToSession, the
\* failure is printed on the error channel and the target is loaded all the
\* same: a target with a record becomes the active session.
C20_FailedSaveReportedSwitchGoesOn ==
    (last.op = "switch" /\ ~last.saveOk) =>
        /\ last.saveReported
        /\ last.targetBefore.kind = "record" =>
              /\ last.loadOk
              /\ cur.id = last.target
              /\ cur.hist =
                   getHistory(loadFromFile(last.targetBefore, last.target).sess).hist

C20_SwitchedAfterFailedSave ==
    /\ last.op = "switch"
    /\ ~last.saveOk
    /\ last.saveReported
    /\ last.loadOk
    /\ cur.id = last.target

\* ---------------------------------------------------------------------
\* C21. In every state where no operation is in flight, isEmpty() is true
\* exactly when _history has fewer than two messages, and exactly then a
\* saveToFile() issued next writes nothing: it succeeds and leaves the
\* session file as it is. When isEmpty() is false the save reaches
\* writeFileSync.
C21_IsEmptyPredictsSave ==
    (pc = "prompt") =>
        LET sv == saveToFile(cur, FileOf(disk, cur.id), clock, "ok")
        IN  /\ isEmpty(cur) <=> Len(cur.hist) < 2
            /\ isEmpty(cur) <=> ~sv.wrote
            /\ isEmpty(cur) => sv.ok /\ sv.file = FileOf(disk, cur.id)

\* a session loaded under GEMINI from a record of two messages, one of them
\* without text: the handle keeps one message, isEmpty() is true and the
\* save writes nothing
C21_EmptyAfterFilteredLoad ==
    /\ pc = "prompt"
    /\ last.op \in {"switch", "startup"}
    /\ last.loadOk
    /\ Len(last.targetBefore.history) = 2
    /\ Len(cur.hist) = 1
    /\ isEmpty(cur)
    /\ ~saveToFile(cur, FileOf(disk, cur.id), clock, "ok").wrote

\* ---------------------------------------------------------------------
\* C22. After clearHistory the session has an empty _history and a new chat
\* handle whose history and backend conversation are empty, its id is the
\* one it had, and the save that ends the call writes nothing and succeeds:
\* the session file is what it was before the call, a record with the
\* history from before the clear included.
C22_ClearKeepsRecord ==
    (last.op = "clear") =>
        /\ cur.hist = << >>
        /\ cur.ready /\ cur.chat = << >> /\ cur.ctx = << >>
        /\ cur.id = last.prev.id
        /\ last.saveTried /\ last.saveOk /\ ~last.saveWrote
        /\ FileOf(disk, cur.id) = last.fileBefore

\* a session of two or more messages that has a record holding them was
\* cleared: memory is empty, the record still has the messages
C22_ClearedOverRecord ==
    /\ last.op = "clear"
    /\ Len(last.prev.hist) >= 2
    /\ cur.hist = << >>
    /\ disk[cur.id].kind = "record"
    /\ Plain(disk[cur.id].history) = Plain(last.prev.hist)

\* ---------------------------------------------------------------------
\* C23. While the backend call of a turn is in flight, and after a signal
\* has ended the process with the call still in flight, the log file holds
\* an entry of this turn for the message sent: the session's id, the prompt
\* and the turn's time.
C23_LoggedBeforeResponse ==
    (pending # "") =>
        \E i \in 1..Len(Entries(wal)) :
            /\ Entries(wal)[i].session_id = cur.id
            /\ Entries(wal)[i].prompt = pending
            /\ Entries(wal)[i].timestamp = clock

\* ---------------------------------------------------------------------
\* C24. Whenever process.env.ENGINE is not one of the names ENGINE_MAPPING
\* knows, startup ends with the error of initialize(): the process has
\* failed, no chat handle exists and the manager has no active session.
C24_UnknownEngineIsFatal ==
    (pc # "start" /\ engine \notin Engines) =>
        /\ pc = "failed"
        /\ last.raised
        /\ cur = NoSession

\* ---------------------------------------------------------------------
\* C25. Once initializeFromCLI has returned, in every state the manager's
\* _currentSession is a session (one of the ids handed out or asked for)
\* that holds a chat handle, whatever the saves, loads and removals of
\* createNewSession, switchToSession and removeCurrentSessionAndCreateNew
\* did.
C25_AlwaysOneInitializedSession ==
    (pc \notin {"start", "failed"}) =>
        /\ cur # NoSession
        /\ cur.id \in Ids
        /\ cur.ready

\* a switch whose save failed and whose load failed too: the session that
\* was active still is, with its handle
C25_KeptAfterFailedSaveAndLoad ==
    /\ last.op = "switch"
    /\ last.saveTried /\ ~last.saveOk
    /\ ~last.loadOk
    /\ cur.id = last.prev.id
    /\ cur.ready

\* ---------------------------------------------------------------------
\* C26. Whenever the process has ended with an active session of two or
\* more messages that its session file does not hold, the cleanupAndSave
\* of the path it ended on has made its save: saveToFile reached
\* saveSessionHistory.
C26_ExitSavesSession ==
    (/\ pc = "exited"
     /\ ~isEmpty(cur)
     /\ \/ disk[cur.id].kind # "record"
        \/ Plain(disk[cur.id].history) # Plain(cur.hist)) => last.saveTried

\* ---------------------------------------------------------------------
\* C27. A save of a history over the record an earlier save of the same
\* history wrote leaves a record with the same session_id, model and
\* system_role and the same sequence of (role, text): the two records
\* differ at most in timestamps.
C27_SaveIdempotent ==
    (last.op = "save" /\ last.saveWrote /\ last.fileBefore.kind = "record") =>
        /\ disk[cur.id].kind = "record"
        /\ disk[cur.id].session_id = last.fileBefore.session_id
        /\ disk[cur.id].model = last.fileBefore.model
        /\ disk[cur.id].system_role = last.fileBefore.system_role
        /\ Plain(disk[cur.id].history) = Plain(last.fileBefore.history)
        /\ Plain(disk[cur.id].history) = Plain(cur.hist)

\* the second save of a history whose first message has no timestamp: the
\* record has the same messages, the first with the time of the second save
C27_SecondSaveRestamps ==
    /\ last.op = "save"
    /\ last.saveWrote
    /\ last.fileBefore.kind = "record"
    /\ cur.hist[1].ts = 0
    /\ Plain(disk[cur.id].history) = Plain(last.fileBefore.history)
    /\ disk[cur.id].history[1].ts # last.fileBefore.history[1].ts

\* ---------------------------------------------------------------------
\* C28. listSessions returns exactly one entry per session file, in id
\* order: the entry of a file that cannot be read as a record carries the
\* error marker, the entry of every record carries no error and a
\* messages_count equal to the length of the record's history, whatever the
\* other files are.
C28_OneEntryPerFile ==
    (last.op = "list") =>
        LET found == {i \in Ids : disk[i].kind # "absent"}
            L == last.listing
        IN  /\ Len(L) = Cardinality(found)
            /\ \A a, b \in 1..Len(L) : a < b => L[a].id < L[b].id
            /\ \A i \in found : \E k \in 1..Len(L) :
                  /\ L[k].id = i
                  /\ disk[i].kind # "record" => L[k].error = ListError
                  /\ disk[i].kind = "record" =>
                        /\ L[k].error = ""
                        /\ L[k].messages_count = Len(disk[i].history)

\* a listing over a file that does not parse followed by a record
C28_ListedPastCorruptFile ==
    /\ last.op = "list"
    /\ disk[1].kind = "corrupt"
    /\ disk[2].kind = "record"
    /\ Len(last.listing) = 2
    /\ last.listing[1].error = ListError
    /\ last.listing[2].error = ""
    /\ last.listing[2].messages_count = 2

\* ---------------------------------------------------------------------
\* C29. getTokenInfo() returns [total, remaining, budget] with total what
\* the client counted (0 for an empty history), budget = 32768 and
\* remaining = budget - total, below zero when total is above the budget;
\* getRemainingTokens() returns 32768 minus what the client counted for it,
\* the same remaining whenever the two counts are the same.
C29_RemainingIsBudgetMinusTotal ==
    (last.op = "tokens") =>
        LET total == last.tokenInfo[1]
            remaining == last.tokenInfo[2]
            budget == last.tokenInfo[3]
        IN  /\ budget = 32768
            /\ total = (IF Len(cur.hist) = 0 THEN 0 ELSE last.counted[1])
            /\ remaining = budget - total
            /\ total > budget => remaining < 0
            /\ last.remaining =
                  32768 - (IF Len(cur.hist) = 0 THEN 0 ELSE last.counted[2])
            /\ last.counted[1] = last.counted[2] => last.remaining = remaining

\* a history counted above the budget: both queries return a negative
\* remaining
C29_NegativeRemaining ==
    /\ last.op = "tokens"
    /\ last.tokenInfo[1] = 3 * 32768
    /\ last.tokenInfo[2] = -(2 * 32768)
    /\ last.remaining = -(2 * 32768)

\* ---------------------------------------------------------------------
\* C30. While the sendMessage of the main loop is suspended on its backend
\* call, no other suspending operation of the session is in progress or
\* has run: the signal handler's cleanupAndSave is not waiting on the
\* handle's history, and it has not made its save.
C30_OneOperationAtATime ==
    (pending # "") =>
        /\ pc # "cleanupWait"
        /\ ~(last.op = "signal" /\ last.saveTried)

\* ---------------------------------------------------------------------
\* C31. Once the signal handler has started its cleanupAndSave while a
\* backend call is in flight, the process exits, whether or not that call
\* ever returns.
C31_SignalLeadsToExit ==
    (pc \in {"cleanupWait", "cleanupStalled"}) ~> (pc = "exited")

C34_MessagesNeverAltered ==
    /\ (last.op = "turn" /\ ~last.raised)
       => IsPrefix(last.prev.hist, cur.hist)
    /\ (last.op = "turn" /\ ~last.raised /\ last.saveWrote /\ last.saveOk
        /\ last.fileBefore.kind = "record")
       => IsPrefix(last.fileBefore.history, FileOf(disk, cur.id).history)
    /\ (last.op \in {"startup", "switch"} /\ last.loadOk)
       => cur.hist = last.targetBefore.history

C36_OtherRecordsUntouched ==
    [][/\ \A i \in Ids : i # cur.id => disk'[i] = disk[i]
       /\ \A i \in Ids :
             (disk[i].kind # "absent" /\ disk'[i].kind = "absent")
             => (i = cur.id /\ last'.op = "remove")]_vars

\* a switch that saved the session it left and loaded a stored record: both
\* records are on disk, the one loaded as the switch found it
C36_SavedBesideLoadedRecord ==
    /\ last.op = "switch"
    /\ last.loadOk
    /\ last.saveWrote
    /\ last.saveOk
    /\ last.target # last.prev.id
    /\ last.targetBefore.kind = "record"
    /\ FileOf(disk, last.target) = last.targetBefore
    /\ FileOf(disk, last.prev.id).kind = "record"
    /\ FileOf(disk, last.prev.id) # last.fileBefore

\* C37: every session record on disk holds only complete exchanges: its
\* history has even length and alternates user, model, starting with a user
\* message.
C37_RecordsHoldCompleteExchanges ==
    \A i \in Ids :
        disk[i].kind = "record" =>
            /\ Len(disk[i].history) % 2 = 0
            /\ \A k \in 1..Len(disk[i].history) :
                  disk[i].history[k].role = IF k % 2 = 1 THEN "user" ELSE "model"

\* C38: with a log file that works, every exchange in the record of a
\* session created in this run has its own log entry with the same session
\* id, prompt and response: for every prompt and response the record holds
\* no more exchanges of them than the log holds entries.
C38_StoredExchangesAreLogged ==
    \A i \in Ids \ StoredIds :
        disk[i].kind = "record" =>
            \A p \in UserTexts, r \in ResponseTexts \cup {LlamaErrorText} :
                Cardinality({k \in 1..(Len(disk[i].history) - 1) :
                                /\ RoleText(disk[i].history[k]) = <<"user", p>>
                                /\ RoleText(disk[i].history[k + 1]) = <<"model", r>>})
                <= Cardinality({j \in 1..Len(Entries(wal)) :
                                   /\ wal.entries[j].session_id = i
                                   /\ wal.entries[j].prompt = p
                                   /\ wal.entries[j].response = r})

\* C39: the log lists the exchanges in the order they happened, across all
\* sessions. The entries' times (the time of the turn that made each) grow
\* along the log; and every step that leaves new entries in the log leaves
\* the entries it keeps in their places and one new entry after them, which
\* carries the id of the session that sent, the prompt that was sent and the
\* response that was returned.
C39_LogInOrderOfExchanges ==
    /\ [](\A j, k \in 1..Len(Entries(wal)) :
             j < k => wal.entries[j].timestamp < wal.entries[k].timestamp)
    /\ [][(wal' # wal /\ Len(Entries(wal')) > 0) =>
             LET n == Len(wal'.entries)
             IN  /\ SubSeq(wal'.entries, 1, n - 1) \in {Entries(wal), << >>}
                 /\ wal'.entries[n].session_id = cur.id
                 /\ wal'.entries[n].prompt = pending
                 /\ wal'.entries[n].response = last'.response
                 /\ wal'.entries[n].timestamp = clock
                 /\ last'.op = "turn"
                 /\ ~last'.raised]_vars

\* two exchanges of two sessions, logged in the order they were made
C39_TwoSessionsLoggedInOrder ==
    /\ last.op = "turn"
    /\ last.walOk
    /\ Len(Entries(wal)) = 2
    /\ wal.entries[1].session_id # wal.entries[2].session_id
    /\ wal.entries[2].session_id = cur.id
    /\ wal.entries[1].timestamp < wal.entries[2].timestamp

=============================================================================
